---- MODULE Spec2Model ----
(***************************************************************************)
(* Trust Region Reflective least-squares iteration of                      *)
(* scipy/optimize/_lsq_trf.py (function trf and its helpers).              *)
(*                                                                         *)
(* The model follows one call of trf for a problem with one variable and   *)
(* one residual (n = m = 1), solved with tr_solver = 'exact'.  Vectors are *)
(* therefore scalars and the Jacobian is one number; the infinity norm is  *)
(* the absolute value, and the Euclidean norm is computed as numpy does,   *)
(* the square root of the rounded square.                                  *)
(*                                                                         *)
(* Floating-point numbers are IEEE 754 doubles: a sign, a significand of   *)
(* 53 bits and a binary exponent, every operation rounded to nearest, ties *)
(* to even.  Significands and the exact results that are rounded do not    *)
(* fit the integers of TLC, so natural numbers are kept as sequences of    *)
(* digits.                                                                 *)
(***************************************************************************)
EXTENDS Integers, Sequences, FiniteSets

(***************************************************************************)
(* Natural numbers of any size: the sequence of their digits to the base   *)
(* Base, the least significant first, without leading zeros (0 is << >>).  *)
(***************************************************************************)
Base == 2^13

RECURSIVE NSqrtNear(_)
RECURSIVE NTrim(_)
NTrim(a) ==
    IF a = <<>> THEN a
    ELSE IF a[Len(a)] = 0 THEN NTrim(SubSeq(a, 1, Len(a) - 1))
    ELSE a

Limb(a, i) == IF i >= 1 /\ i <= Len(a) THEN a[i] ELSE 0

RECURSIVE NCmpFrom(_, _, _)
NCmpFrom(a, b, i) ==
    IF i = 0 THEN 0
    ELSE IF a[i] < b[i] THEN 0 - 1
    ELSE IF a[i] > b[i] THEN 1
    ELSE NCmpFrom(a, b, i - 1)

\* -1, 0, 1 as a < b, a = b, a > b.
NCmp(a, b) ==
    IF Len(a) < Len(b) THEN 0 - 1
    ELSE IF Len(a) > Len(b) THEN 1
    ELSE NCmpFrom(a, b, Len(a))

RECURSIVE NAddFrom(_, _, _, _)
NAddFrom(a, b, i, c) ==
    IF i > Len(a) /\ i > Len(b) THEN (IF c = 0 THEN <<>> ELSE <<c>>)
    ELSE <<(Limb(a, i) + Limb(b, i) + c) % Base>>
           \o NAddFrom(a, b, i + 1, (Limb(a, i) + Limb(b, i) + c) \div Base)

NAdd(a, b) == NAddFrom(a, b, 1, 0)

RECURSIVE NSubFrom(_, _, _, _)
NSubFrom(a, b, i, c) ==
    IF i > Len(a) THEN <<>>
    ELSE <<(Base + a[i] - Limb(b, i) - c) % Base>>
           \o NSubFrom(a, b, i + 1, IF a[i] - Limb(b, i) - c < 0 THEN 1 ELSE 0)

\* a - b for a >= b.
NSub(a, b) == NTrim(NSubFrom(a, b, 1, 0))

RECURSIVE NCol(_, _, _, _)
\* The sum of a[j] * b[k + 1 - j] over j >= i.
NCol(a, b, k, i) ==
    IF i > Len(a) \/ i > k THEN 0
    ELSE a[i] * b[k + 1 - i] + NCol(a, b, k, i + 1)

RECURSIVE NMulFrom(_, _, _, _)
NMulFrom(a, b, k, c) ==
    IF k > Len(a) + Len(b) - 1
    THEN (IF c = 0 THEN <<>>
          ELSE IF c < Base THEN <<c>>
          ELSE <<c % Base, c \div Base>>)
    ELSE <<(NCol(a, b, k, IF k > Len(b) THEN k + 1 - Len(b) ELSE 1) + c) % Base>>
           \o NMulFrom(a, b, k + 1,
                       (NCol(a, b, k, IF k > Len(b) THEN k + 1 - Len(b) ELSE 1) + c)
                          \div Base)

NMul(a, b) == IF a = <<>> \/ b = <<>> THEN <<>> ELSE NMulFrom(a, b, 1, 0)

RECURSIVE NMulSmallFrom(_, _, _, _)
NMulSmallFrom(a, k, i, c) ==
    IF i > Len(a) THEN (IF c = 0 THEN <<>> ELSE <<c>>)
    ELSE <<(a[i] * k + c) % Base>> \o NMulSmallFrom(a, k, i + 1, (a[i] * k + c) \div Base)

\* a * k for a digit k.
NMulSmall(a, k) == IF k = 0 \/ a = <<>> THEN <<>> ELSE IF k = 1 THEN a ELSE NMulSmallFrom(a, k, 1, 0)

\* a * Base^n.
NShift(a, n) == IF a = <<>> THEN a ELSE [i \in 1..n |-> 0] \o a

\* r * Base + l.
NPush(l, r) == IF r = <<>> /\ l = 0 THEN <<>> ELSE <<l>> \o r

\* The next digit of a quotient by b, from the leading digits of the
\* remainder r: it is at most two too large.
NDivDigit(r, b) ==
    IF (Limb(r, Len(b) + 1) * Base + Limb(r, Len(b))) \div b[Len(b)] >= Base
    THEN Base - 1
    ELSE (Limb(r, Len(b) + 1) * Base + Limb(r, Len(b))) \div b[Len(b)]

RECURSIVE NDivFrom(_, _, _, _, _)
RECURSIVE NDivFix(_, _, _, _, _, _, _)
\* Long division of a by b, whose leading digit is at least Base / 2: the
\* digits a[i], ..., a[1] are still to come, r holds the remainder so far
\* with the digit a[i + 1], and q the quotient so far.
NDivFrom(a, b, i, r, q) ==
    NDivFix(a, b, i, r, q, NDivDigit(r, b), NMulSmall(b, NDivDigit(r, b)))

\* The digit qh is lowered until t = qh * b fits r.
NDivFix(a, b, i, r, q, qh, t) ==
    IF NCmp(t, r) > 0 THEN NDivFix(a, b, i, r, q, qh - 1, NSub(t, b))
    ELSE IF i = 0 THEN [q |-> NTrim(<<qh>> \o q), r |-> NSub(r, t)]
    ELSE NDivFrom(a, b, i - 1, NPush(a[i], NSub(r, t)), <<qh>> \o q)

\* Quotient and remainder of a by b, whose leading digit is at least
\* Base / 2.
NDivScaled(a, b) ==
    IF Len(a) < Len(b) THEN [q |-> <<>>, r |-> a]
    ELSE NDivFrom(a, b, Len(a) - Len(b), SubSeq(a, Len(a) - Len(b) + 1, Len(a)), <<>>)

\* Quotient of a by b > 0, rounded down, and whether a remainder is left;
\* the two are scaled first so that the leading digit of b is at least
\* Base / 2.
NDivMod(a, b) ==
    NDivScaled(NMulSmall(a, Base \div (b[Len(b)] + 1)),
               NMulSmall(b, Base \div (b[Len(b)] + 1)))

NDivFloor(a, b) == NDivMod(a, b).q

RECURSIVE NHalfFrom(_, _, _)
NHalfFrom(a, i, c) ==
    IF i = 0 THEN <<>>
    ELSE NHalfFrom(a, i - 1, (c * Base + a[i]) % 2) \o <<(c * Base + a[i]) \div 2>>

\* a / 2, rounded down.
NHalf(a) == NTrim(NHalfFrom(a, Len(a), 0))

RECURSIVE ISqrt(_, _, _)
\* floor of the square root of the small number n, with lo * lo <= n < hi * hi.
ISqrt(n, lo, hi) ==
    IF hi - lo <= 1 THEN lo
    ELSE IF ((lo + hi) \div 2) * ((lo + hi) \div 2) <= n
    THEN ISqrt(n, (lo + hi) \div 2, hi)
    ELSE ISqrt(n, lo, (lo + hi) \div 2)

RECURSIVE NSqrtDown(_, _)
\* The largest r at most x with r * r <= a.
NSqrtDown(a, x) == IF NCmp(NMul(x, x), a) > 0 THEN NSqrtDown(a, NSub(x, <<1>>)) ELSE x

RECURSIVE NSqrtFix(_, _)
\* The largest r with r * r <= a, from x with x * x <= a.
NSqrtFix(a, x) ==
    IF NCmp(NMul(NAdd(x, <<1>>), NAdd(x, <<1>>)), a) <= 0 THEN NSqrtFix(a, NAdd(x, <<1>>))
    ELSE x

\* A step of Newton's iteration for the square root of a from x.
NNewton(a, x) == NHalf(NAdd(x, NDivFloor(a, x)))

\* The square root of the two leading digits of a, or of its leading digit
\* when the number of digits is odd, rounded up.
NSqrtLead(a) ==
    IF Len(a) % 2 = 0
    THEN ISqrt(a[Len(a)] * Base + a[Len(a) - 1], 0, Base + 1) + 1
    ELSE ISqrt(a[Len(a)], 0, Base) + 1

\* The square root of a > 0 within a few units: Newton's iteration doubles
\* the digits that are right, from those of the leading digits.
NSqrtNear(a) ==
    IF Len(a) <= 2 THEN <<NSqrtLead(a)>>
    ELSE IF Len(a) <= 6
    THEN NNewton(a, NNewton(a, NShift(<<NSqrtLead(a)>>, (Len(a) - 1) \div 2)))
    ELSE NNewton(a, NShift(NSqrtNear(SubSeq(a, 2 * ((Len(a) - 3) \div 4) + 1, Len(a))),
                           (Len(a) - 3) \div 4))

\* The square root of a, rounded down.
NSqrtFloor(a) == IF a = <<>> THEN a ELSE NSqrtFix(a, NSqrtDown(a, NSqrtNear(a)))

(***************************************************************************)
(* Floating-point numbers: IEEE 754 binary64.  A number is 0, or           *)
(* s * m * 2^e with sign s, exponent e >= -1074 and a significand m of 53  *)
(* bits (of fewer bits only for e = -1074, the subnormal numbers).  Every  *)
(* operation computes the exact result and rounds it to nearest, ties to   *)
(* even.  A result beyond the largest double is inf; 0 * inf, 0 / 0,      *)
(* inf - inf and inf / inf are not-a-number, which every operation hands  *)
(* on and every comparison answers with false.                            *)
(***************************************************************************)
RECURSIVE ILog2(_)
\* floor of the binary logarithm of the digit n >= 1.
ILog2(n) == IF n <= 1 THEN 0 ELSE 1 + ILog2(n \div 2)

\* The number of bits of the natural number a.
NBitLen(a) == IF a = <<>> THEN 0 ELSE 13 * (Len(a) - 1) + ILog2(a[Len(a)]) + 1

\* a * 2^r.
NShl(a, r) ==
    IF a = <<>> THEN a
    ELSE NShift(NTrim([i \in 1..(Len(a) + 1) |->
                          (Limb(a, i) % 2^(13 - (r % 13))) * 2^(r % 13)
                            + Limb(a, i - 1) \div 2^(13 - (r % 13))]),
                r \div 13)

\* floor(a / 2^r).
NShr(a, r) ==
    IF Len(a) <= r \div 13 THEN <<>>
    ELSE NTrim([i \in 1..(Len(a) - r \div 13) |->
                   Limb(a, i + r \div 13) \div 2^(r % 13)
                     + (Limb(a, i + r \div 13 + 1) % 2^(r % 13))
                         * 2^(13 - (r % 13))])

\* a / 2^r rounded to nearest, ties to even, given q = floor(a / 2^r).
NShrEven(a, r, q) ==
    IF r = 0 THEN q
    ELSE IF NCmp(NShl(NSub(a, NShl(q, r)), 1), NShl(<<1>>, r))
              + (IF Limb(q, 1) % 2 = 1 THEN 1 ELSE 0) > 0
    THEN NAdd(q, <<1>>)
    ELSE q

MinExp == 0 - 1074

MaxExp == 1023 - 52

Zero == [s |-> 0, e |-> 0, m |-> <<>>]

Inf == [s |-> 1, e |-> MaxExp + 1, m |-> <<0, 0, 0, 0, 1>>]

\* Not-a-number.
NaN == [s |-> 0, e |-> MaxExp + 1, m |-> <<>>]

\* The value of a name that is not bound yet.
Unbound == [s |-> 0, e |-> 0, m |-> <<0>>]

\* The argument s0 = None of build_1d_quadratic_function: no initial point.
NoInitialPoint == [s |-> 0, e |-> 0, m |-> <<0, 0>>]

None == 0 - 1

Sign(a) == a.s

Neg(a) == [s |-> 0 - a.s, e |-> a.e, m |-> a.m]

Abs(a) == [s |-> a.s * a.s, e |-> a.e, m |-> a.m]

IsInf(a) == a.s # 0 /\ a.e > MaxExp

IsNaN(a) == a.s = 0 /\ a.e > MaxExp

\* numpy.isfinite.
isfinite(a) == ~IsInf(a) /\ ~IsNaN(a)

\* The double of significand mm = 2^53 or less and exponent ee.
Pack(sg, mm, ee) ==
    IF mm = <<>> THEN Zero
    ELSE IF Len(mm) = 5 /\ mm[5] = 2
    THEN (IF ee + 1 > MaxExp THEN [s |-> sg, e |-> Inf.e, m |-> Inf.m]
          ELSE [s |-> sg, e |-> ee + 1, m |-> <<0, 0, 0, 0, 1>>])
    ELSE IF ee > MaxExp THEN [s |-> sg, e |-> Inf.e, m |-> Inf.m]
    ELSE [s |-> sg, e |-> ee, m |-> mm]

\* sg * n * 2^ee rounded to a double, dropping r bits of n (r < 0: adding).
RoundBits(sg, n, ee, r) ==
    IF r <= 0 THEN Pack(sg, NShl(n, 0 - r), ee + r)
    ELSE Pack(sg, NShrEven(n, r, NShr(n, r)), ee + r)

\* sg * n * 2^ee rounded to a double.
Round(sg, n, ee) ==
    IF n = <<>> \/ sg = 0 THEN Zero
    ELSE RoundBits(sg, n, ee,
                   IF ee + NBitLen(n) - 53 >= MinExp THEN NBitLen(n) - 53
                   ELSE MinExp - ee)

\* -1, 0, 1 as a is less than, equal to, greater than b.
Cmp(a, b) ==
    IF a.s # b.s THEN (IF a.s < b.s THEN 0 - 1 ELSE 1)
    ELSE IF a.s = 0 THEN 0
    ELSE IF a.e # b.e THEN (IF a.e < b.e THEN 0 - a.s ELSE a.s)
    ELSE a.s * NCmp(a.m, b.m)

Lt(a, b) == ~IsNaN(a) /\ ~IsNaN(b) /\ Cmp(a, b) < 0

Le(a, b) == ~IsNaN(a) /\ ~IsNaN(b) /\ Cmp(a, b) <= 0

Gt(a, b) == ~IsNaN(a) /\ ~IsNaN(b) /\ Cmp(a, b) > 0

Ge(a, b) == ~IsNaN(a) /\ ~IsNaN(b) /\ Cmp(a, b) >= 0

\* min(a, b) and max(a, b) of Python: b only when it is smaller (larger).
Min(a, b) == IF Lt(b, a) THEN b ELSE a

Max(a, b) == IF Gt(b, a) THEN b ELSE a

\* numpy.minimum and numpy.maximum: not-a-number when an argument is.
minimum(a, b) ==
    IF IsNaN(a) THEN a ELSE IF IsNaN(b) THEN b ELSE IF Lt(b, a) THEN b ELSE a

maximum(a, b) ==
    IF IsNaN(a) THEN a ELSE IF IsNaN(b) THEN b ELSE IF Gt(b, a) THEN b ELSE a

\* a + b for finite a, b # 0 with a.e >= b.e: exact, then rounded.  A b more
\* than 64 bits below a only tells on which side of a the sum lies.
AddOrdered(a, b) ==
    IF a.e - b.e > 64
    THEN Round(a.s,
               IF a.s = b.s THEN NAdd(NShl(a.m, 3), <<1>>)
               ELSE NSub(NShl(a.m, 3), <<1>>),
               a.e - 3)
    ELSE IF a.s = b.s THEN Round(a.s, NAdd(NShl(a.m, a.e - b.e), b.m), b.e)
    ELSE IF NCmp(NShl(a.m, a.e - b.e), b.m) >= 0
    THEN Round(a.s, NSub(NShl(a.m, a.e - b.e), b.m), b.e)
    ELSE Round(b.s, NSub(b.m, NShl(a.m, a.e - b.e)), b.e)

\* a + b.
Add(a, b) ==
    IF IsNaN(a) \/ IsNaN(b) THEN NaN
    ELSE IF a.s = 0 THEN b
    ELSE IF b.s = 0 THEN a
    ELSE IF IsInf(a) THEN (IF IsInf(b) /\ a.s # b.s THEN NaN ELSE a)
    ELSE IF IsInf(b) THEN b
    ELSE IF a.e >= b.e THEN AddOrdered(a, b)
    ELSE AddOrdered(b, a)

\* a - b.
Sub(a, b) == Add(a, Neg(b))

\* The significand of a power of two.
PowerOfTwo == <<0, 0, 0, 0, 1>>

\* a * 2^k is exact while it stays a normal double.
Scaled(sg, a, k) ==
    IF a.e + k > MinExp /\ a.e + k <= MaxExp /\ Len(a.m) = 5
    THEN [s |-> sg, e |-> a.e + k, m |-> a.m]
    ELSE Round(sg, a.m, a.e + k)

\* a * b.
Mul(a, b) ==
    IF IsNaN(a) \/ IsNaN(b) THEN NaN
    ELSE IF a.s = 0 \/ b.s = 0 THEN (IF IsInf(a) \/ IsInf(b) THEN NaN ELSE Zero)
    ELSE IF IsInf(a) \/ IsInf(b) THEN [s |-> a.s * b.s, e |-> Inf.e, m |-> Inf.m]
    ELSE IF b.m = PowerOfTwo THEN Scaled(a.s * b.s, a, b.e + 52)
    ELSE IF a.m = PowerOfTwo THEN Scaled(a.s * b.s, b, a.e + 52)
    ELSE Round(a.s * b.s, NMul(a.m, b.m), a.e + b.e)

\* The quotient q of a division, its last bit set when a remainder is left.
DivSticky(dm) == IF dm.r = <<>> THEN NShl(dm.q, 1) ELSE NAdd(NShl(dm.q, 1), <<1>>)

\* a / b; x / 0 is inf and 0 / 0 not-a-number, as in numpy.
Div(a, b) ==
    IF IsNaN(a) \/ IsNaN(b) THEN NaN
    ELSE IF IsInf(a)
    THEN (IF IsInf(b) THEN NaN
          ELSE [s |-> a.s * (IF b.s < 0 THEN 0 - 1 ELSE 1), e |-> Inf.e, m |-> Inf.m])
    ELSE IF a.s = 0 THEN (IF b.s = 0 THEN NaN ELSE Zero)
    ELSE IF IsInf(b) THEN Zero
    ELSE IF b.s = 0 THEN [s |-> a.s, e |-> Inf.e, m |-> Inf.m]
    ELSE IF b.m = PowerOfTwo THEN Scaled(a.s * b.s, a, 0 - (b.e + 52))
    ELSE Round(a.s * b.s,
               DivSticky(NDivMod(NShl(a.m, 110 - NBitLen(a.m)), b.m)),
               a.e - (110 - NBitLen(a.m)) - b.e - 1)

\* The square root of the natural n, its last bit set when it is not exact.
SqrtSticky(n, r) == IF NMul(r, r) = n THEN NShl(r, 1) ELSE NAdd(NShl(r, 1), <<1>>)

\* The square root of mm * 2^ee, mm shifted by sh bits to make ee - sh even.
SqrtShifted(mm, ee, sh) ==
    Round(1, SqrtSticky(NShl(mm, sh), NSqrtFloor(NShl(mm, sh))), (ee - sh) \div 2 - 1)

\* a ** 0.5; not-a-number for a < 0.
Sqrt(a) ==
    IF a.s < 0 THEN NaN
    ELSE IF a.s = 0 \/ IsInf(a) THEN a
    ELSE SqrtShifted(a.m, a.e, 110 - NBitLen(a.m) + ((a.e - (110 - NBitLen(a.m))) % 2))

\* numpy.linalg.norm of a vector of one component: sqrt(x.dot(x)), the square
\* rounded (to 0.0 below 2^-1075) before the root is taken.
norm(a) == Sqrt(Mul(a, a))

\* The whole number k, |k| < 2^26.
Float(k) ==
    Round(IF k < 0 THEN 0 - 1 ELSE IF k = 0 THEN 0 ELSE 1,
          NTrim(<<(IF k < 0 THEN 0 - k ELSE k) % Base,
                  (IF k < 0 THEN 0 - k ELSE k) \div Base>>), 0)

\* n / k for whole numbers: the double of the decimal literal.
Ratio(n, k) == Div(Float(n), Float(k))

\* The neighbour of the double a # 0 farther from 0.
StepAway(a) == Pack(a.s, NAdd(a.m, <<1>>), a.e)

\* The neighbour of the double a # 0 nearer to 0.
StepBack(a) ==
    IF a.m = <<0, 0, 0, 0, 1>> /\ a.e > MinExp
    THEN [s |-> a.s, e |-> a.e - 1, m |-> <<Base - 1, Base - 1, Base - 1, Base - 1, 1>>]
    ELSE Pack(a.s, NSub(a.m, <<1>>), a.e)

\* numpy.nextafter(a, b): the next double after a in the direction of b.
nextafter(a, b) ==
    IF IsNaN(a) \/ IsNaN(b) THEN NaN
    ELSE IF Cmp(a, b) = 0 \/ IsInf(a) THEN a
    ELSE IF a.s = 0 THEN [s |-> IF Gt(b, a) THEN 1 ELSE 0 - 1, e |-> MinExp, m |-> <<1>>]
    ELSE IF (Gt(b, a) /\ a.s > 0) \/ (Lt(b, a) /\ a.s < 0) THEN StepAway(a)
    ELSE StepBack(a)

\* Constants of the program.
Unit == Float(1)

Half == Ratio(1, 2)

Quarter == Ratio(1, 4)

ThreeQuarters == Ratio(3, 4)

Two == Float(2)

ThetaMin == Ratio(995, 1000)

NearRadius == Ratio(95, 100)

\* The smallest positive double, 2^-1074 (5e-324).
Tiny == nextafter(Zero, Unit)

\* rstep = 1e-10 of line 308.
RStepInit == Div(Unit, Mul(Float(100000), Float(100000)))

(***************************************************************************)
(* The user's callables fun and jac(x, f): residuals of one variable.      *)
(***************************************************************************)
\* 0: f(x) = x.   1: f(x) = x - 2.   2: f(x) = (x - 3.75)^2 + 1.
\* 3: f(x) = x^2 - 1.
Target == Ratio(15, 4)

Fun_Square(a) == Mul(a, a)

Fun(k, xx) ==
    CASE k = 0 -> xx
      [] k = 1 -> Sub(xx, Two)
      [] k = 2 -> Add(Fun_Square(Sub(xx, Target)), Unit)
      [] OTHER -> Sub(Mul(xx, xx), Unit)

Jac(k, xx) ==
    CASE k = 0 -> Unit
      [] k = 1 -> Unit
      [] k = 2 -> Mul(Two, Sub(xx, Target))
      [] OTHER -> Mul(Two, xx)

(***************************************************************************)
(* Helpers of _lsq_common.  An operator whose name ends in a capital-led   *)
(* word after the name of a function is a part of that function: the       *)
(* values computed so far are its arguments.                               *)
(***************************************************************************)
\* The first index of a smallest value of y, which holds no not-a-number.
ArgMin_Ordered(y) ==
    CHOOSE k \in DOMAIN y :
        /\ \A j \in DOMAIN y : Le(y[k], y[j])
        /\ \A j \in DOMAIN y : j < k => Gt(y[j], y[k])

\* numpy.argmin: the index of the first not-a-number when there is one, else
\* the first index of a smallest value.
ArgMin(y) ==
    IF \E k \in DOMAIN y : IsNaN(y[k])
    THEN CHOOSE k \in DOMAIN y :
             IsNaN(y[k]) /\ \A j \in DOMAIN y : j < k => ~IsNaN(y[j])
    ELSE ArgMin_Ordered(y)

\* The constraints active within the thresholds; the upper one is assigned
\* last.
find_active_constraints_Within(lower_dist, upper_dist, lower_threshold, upper_threshold, l, u) ==
    IF isfinite(u) /\ Le(upper_dist, minimum(lower_dist, upper_threshold))
    THEN 1
    ELSE IF isfinite(l) /\ Le(lower_dist, minimum(upper_dist, lower_threshold))
    THEN 0 - 1
    ELSE 0

\* -1 where x is at the lower bound, 1 where it is at the upper bound, within
\* the relative tolerance rtol; rtol = 0 asks for x <= lb, x >= ub.
find_active_constraints(xx, l, u, rtol) ==
    IF rtol = Zero
    THEN IF Ge(xx, u) THEN 1 ELSE IF Le(xx, l) THEN 0 - 1 ELSE 0
    ELSE find_active_constraints_Within(
             Sub(xx, l), Sub(u, xx),
             Mul(rtol, maximum(Unit, Abs(l))),
             Mul(rtol, maximum(Unit, Abs(u))),
             l, u)

\* The point moved off an active bound.
make_strictly_feasible_Moved(xx, l, u, rstep, active) ==
    IF active = 0 - 1
    THEN (IF rstep = Zero THEN nextafter(l, u)
          ELSE Add(l, Mul(rstep, maximum(Unit, Abs(l)))))
    ELSE IF active = 1
    THEN (IF rstep = Zero THEN nextafter(u, l)
          ELSE Sub(u, Mul(rstep, maximum(Unit, Abs(u)))))
    ELSE xx

\* A point the move leaves outside a narrow box goes to the middle.
make_strictly_feasible_Tight(moved, l, u) ==
    IF Lt(moved, l) \/ Gt(moved, u) THEN Mul(Half, Add(l, u)) ELSE moved

\* Shift a point into the interior of the box: by the relative step rstep
\* from the bound, by nextafter when rstep = 0.
make_strictly_feasible(xx, l, u, rstep) ==
    make_strictly_feasible_Tight(
        make_strictly_feasible_Moved(xx, l, u, rstep,
                                     find_active_constraints(xx, l, u, rstep)),
        l, u)

\* The sign of s where the step equals the smallest step (n = 1: the only
\* one, which not-a-number does not equal).
step_size_to_bound_Hits(step, s) ==
    [step |-> step, hits |-> IF IsNaN(step) THEN 0 ELSE Sign(s)]

\* The largest t >= 0 with x + t * s inside [lb, ub], and the sign of s where
\* that bound is hit.
step_size_to_bound(xx, s, l, u) ==
    IF s = Zero THEN [step |-> Inf, hits |-> 0]
    ELSE step_size_to_bound_Hits(
             maximum(Div(Sub(l, xx), s), Div(Sub(u, xx), s)), s)

\* Coleman-Li vector v and its derivative jv: the distance to the bound the
\* anti-gradient points at, with dv/dx = -1 (upper), 1 (lower), 0 (none), so
\* that g * jv >= 0.
scaling_vector(xx, gg, l, u) ==
    IF Sign(gg) < 0 /\ isfinite(u) THEN [v |-> Sub(u, xx), jv |-> 0 - 1]
    ELSE IF Sign(gg) > 0 /\ isfinite(l) THEN [v |-> Sub(xx, l), jv |-> 1]
    ELSE [v |-> Unit, jv |-> 0]

\* t1 = q / a and t2 = c / q, the smaller first: t1 first only when t1 < t2.
intersect_trust_region_Roots(t1, t2) ==
    IF Lt(t1, t2) THEN [t_neg |-> t1, t_pos |-> t2]
    ELSE [t_neg |-> t2, t_pos |-> t1]

\* q = -(b + copysign(d, b)) for the root d of a quarter of the discriminant.
intersect_trust_region_Q(a, b, c, dsc) ==
    intersect_trust_region_Roots(
        Div(Neg(Add(b, IF Sign(b) < 0 THEN Neg(dsc) ELSE dsc)), a),
        Div(c, Neg(Add(b, IF Sign(b) < 0 THEN Neg(dsc) ELSE dsc))))

intersect_trust_region_ABC(a, b, c) ==
    intersect_trust_region_Q(a, b, c, Sqrt(Sub(Mul(b, b), Mul(a, c))))

\* The roots t of |p + t * s| = Delta, the smaller first, computed from
\* a = s.s, b = p.s, c = p.p - Delta^2 without loss of significance.
intersect_trust_region(p, s, Del) ==
    intersect_trust_region_ABC(Mul(s, s), Mul(p, s),
                               Sub(Mul(p, p), Mul(Del, Del)))

\* The Gauss-Newton step gn when it is within the region, else the step to
\* the boundary with the Levenberg-Marquardt parameter that puts it there:
\* the root of the secular equation |p(alpha)| = Delta.
solve_lsq_trust_region_Step(s2, suf, gn, Del) ==
    IF Sign(s2) > 0 /\ Le(norm(gn), Del)
    THEN [p |-> gn, alpha |-> Zero]
    ELSE [p |-> IF Sign(suf) > 0 THEN Neg(Del)
                ELSE IF Sign(suf) < 0 THEN Del ELSE Zero,
          alpha |-> Max(Zero, Sub(Div(Abs(suf), Del), s2))]

solve_lsq_trust_region_SVD(s2, suf, Del) ==
    solve_lsq_trust_region_Step(s2, suf, Neg(Div(suf, s2)), Del)

\* The minimizer of 0.5 * (J_h^2 + diag_h) * p^2 + (J_h * f) * p over
\* |p| <= Delta, from the SVD of the augmented matrix [J_h; diag_h ** 0.5].
solve_lsq_trust_region(J_h, dg_h, ff, Del, initial_alpha) ==
    solve_lsq_trust_region_SVD(Add(Mul(J_h, J_h), dg_h), Mul(J_h, ff), Del)

(***************************************************************************)
(* Helpers of _lsq_trf                                                     *)
(***************************************************************************)
\* y = a * t**2 + b * t (line 153).
QuadraticValue(a, b, t) == Add(Mul(a, Mul(t, t)), Mul(b, t))

\* Lines 148-152: the bounds, and the extremum when it lies between them.
minimize_quadratic_Points(a, l, u, extremum) ==
    IF a # Zero /\ Le(l, extremum) /\ Le(extremum, u)
    THEN <<l, u, extremum>>
    ELSE <<l, u>>

\* Lines 154-155: the first smallest value and its point.
minimize_quadratic_At(t, y, i) == [t |-> t[i], y |-> y[i]]

minimize_quadratic_Values(t, y) == minimize_quadratic_At(t, y, ArgMin(y))

minimize_quadratic_Over(a, b, t) ==
    minimize_quadratic_Values(
        t,
        IF Len(t) = 3
        THEN <<QuadraticValue(a, b, t[1]), QuadraticValue(a, b, t[2]),
               QuadraticValue(a, b, t[3])>>
        ELSE <<QuadraticValue(a, b, t[1]), QuadraticValue(a, b, t[2])>>)

\* Minimize y = a * t^2 + b * t on [l, u].
minimize_quadratic(a, b, l, u) ==
    minimize_quadratic_Over(
        a, b,
        minimize_quadratic_Points(a, l, u,
                                  IF a # Zero THEN Div(Mul(Neg(Half), b), a)
                                  ELSE Zero))

\* The coefficients from v = J.s and, when s0 is not None, u = J.s0.
build_1d_quadratic_function_UV(vv, uu, diag, gg, s, s0) ==
    [a |-> Mul(Half, Add(Mul(vv, vv), Mul(Mul(s, diag), s))),
     b |-> IF s0 # NoInitialPoint
           THEN Add(Mul(gg, s), Add(Mul(uu, vv), Mul(Mul(s0, diag), s)))
           ELSE Mul(gg, s)]

\* Coefficients of f(t) = 0.5 * (s0 + t*s) * (J*J + diag) * (s0 + t*s)
\* + g * (s0 + t*s); s0 is a step or NoInitialPoint (s0 = None).
build_1d_quadratic_function(JJ, diag, gg, s, s0) ==
    build_1d_quadratic_function_UV(
        Mul(JJ, s), IF s0 # NoInitialPoint THEN Mul(JJ, s0) ELSE Zero,
        diag, gg, s, s0)

evaluate_quadratic_function_Js(Js, diag, gg, s) ==
    Add(Mul(Half, Add(Mul(Js, Js), Mul(diag, Mul(s, s)))), Mul(s, gg))

\* 0.5 * s * (J*J + diag) * s + g * s for one step s.
evaluate_quadratic_function(JJ, diag, gg, s) ==
    evaluate_quadratic_function_Js(Mul(JJ, s), diag, gg, s)

\* Lines 279-285: p_h stepped back by theta, beside r_h.
find_reflected_step_Return(p_h, r_h, p_stride, reflected) ==
    [steps_h |-> <<p_h, IF reflected THEN r_h ELSE p_h>>,
     p_stride |-> p_stride,
     reflected |-> reflected]

\* Lines 270-275: the reflected step when a stride is admitted.
find_reflected_step_Check(J_h, dg_h, gg_h, p_h, r_h, p_stride, th, r_stride_l, r_stride_u, ab) ==
    find_reflected_step_Return(
        Mul(p_h, th),
        IF Le(r_stride_l, r_stride_u)
        THEN Add(p_h, Mul(r_h, minimize_quadratic(ab.a, ab.b, r_stride_l,
                                                  r_stride_u).t))
        ELSE Zero,
        p_stride,
        Le(r_stride_l, r_stride_u))

\* Lines 262-268: the lower bound of the reflected stride.
find_reflected_step_Strides(J_h, dg_h, gg_h, p_h, r_h, p_stride, th, r_stride_u) ==
    find_reflected_step_Check(
        J_h, dg_h, gg_h, p_h, r_h, p_stride, th,
        IF Sign(r_stride_u) > 0
        THEN Div(Mul(Sub(Unit, th), p_stride), r_stride_u)
        ELSE Neg(Unit),
        r_stride_u,
        build_1d_quadratic_function(J_h, dg_h, gg_h, r_h, p_h))

\* Lines 254-260: p and p_h cut at the bound, and the upper bound of the
\* reflected stride.
find_reflected_step_OnBound(xx, J_h, dg_h, gg_h, p, p_h, Del, l, u, th, p_stride, r_h, r) ==
    find_reflected_step_Strides(
        J_h, dg_h, gg_h, p_h, r_h, p_stride, th,
        Min(Mul(step_size_to_bound(Add(xx, p), r, l, u).step, th),
            intersect_trust_region(p_h, r_h, Del).t_pos))

\* Lines 242-252: the stride to the bound and the reflected direction.
find_reflected_step_Stride(xx, J_h, dg_h, gg_h, p, p_h, dd, Del, l, u, th, sb, r_h) ==
    find_reflected_step_OnBound(xx, J_h, dg_h, gg_h, Mul(p, sb.step),
                                Mul(p_h, sb.step), Del, l, u, th, sb.step,
                                r_h, Mul(dd, r_h))

\* steps_h: the step p_h cut at the bound and stepped back by theta, and the
\* singly reflected step r_h (p_h again when there is none, as "reflected"
\* tells); p_stride is the stride that takes x + p to the bound.  Called only
\* when x + p is not within the bounds.
find_reflected_step(xx, J_h, dg_h, gg_h, p, p_h, dd, Del, l, u, th) ==
    find_reflected_step_Stride(
        xx, J_h, dg_h, gg_h, p, p_h, dd, Del, l, u, th,
        step_size_to_bound(xx, p, l, u),
        IF step_size_to_bound(xx, p, l, u).hits # 0 THEN Neg(p_h) ELSE p_h)

\* The minimizer of the quadratic model along the scaled anti-gradient.
find_gradient_step(xx, a, b, gg_h, dd, Del, l, u, th) ==
    Mul(Neg(minimize_quadratic(
                a, b, Zero,
                Min(Mul(step_size_to_bound(xx, Mul(Neg(gg_h), dd), l, u).step,
                        th),
                    Div(Del, norm(gg_h)))).t),
        gg_h)

(***************************************************************************)
(* Bounds of the model: the inputs trf is called with.                     *)
(***************************************************************************)
MaxNfev == 4

NumFun == 3

\* (lb, ub): no bounds, an upper bound, a box.
Boxes == {<<Neg(Inf), Inf>>, <<Neg(Inf), Ratio(3, 2)>>, <<Float(3), Float(5)>>}

StartPoints == {Zero, Ratio(3, 2), Float(3), Float(4)}

\* 1e-15, below the spacing of the doubles relative to the numbers of the
\* model.
Tight == Div(Unit, Mul(Float(100000), Mul(Float(100000), Float(100000))))

\* (ftol, xtol, gtol): tight tolerances and loose ones.
Tolerances == {<<Tight, Tight, Tight>>,
               <<Ratio(1, 100), Ratio(1, 2), Ratio(1, 100)>>}

\* scaling: 0 stands for 'jac', a positive number is the scale itself.
Scalings == {Zero, Two}

VARIABLES
    fun, x0, f0, J0, lb, ub, ftol, xtol, gtol, max_nfev, scaling,
    pc, x, f, J, J_is_J0, g, scale, v, jv, Delta, alpha, cost,
    g_norm, termination_status, iteration, nfev, njev,
    d, diag_h, g_h, theta,
    actual_reduction, x_new, f_new, cost_new, ratio, step_h,
    status, active_mask,
    in_p_h, ret_p_h, ret_r_h, ret_p_stride, ret_reflected

args == <<fun, x0, f0, lb, ub, ftol, xtol, gtol, max_nfev, scaling>>

\* The Jacobian: the array J0 of the caller, and the array the name J is
\* bound to, which is J0 itself (line 313) until J is bound to a new array
\* (lines 532, 535).
jacobian == <<J0, J, J_is_J0>>

iterate == <<x, f, cost>>

hat == <<d, diag_h, g_h, theta>>

trial == <<x_new, f_new, cost_new, ratio, step_h>>

result == <<status, active_mask>>

\* One call of find_reflected_step taken alone: the step p_h it is given and
\* what it returns.
call == <<in_p_h, ret_p_h, ret_r_h, ret_p_stride, ret_reflected>>

vars == <<args, pc, iterate, jacobian, g, scale, v, jv, Delta, alpha, g_norm,
          termination_status, iteration, nfev, njev, hat, actual_reduction,
          trial, result, call>>

\* scale of scaling == 'jac': the norm of J's column, recomputed each time.
JacScale(JJ) == Sqrt(Mul(JJ, JJ))

\* Delta = norm(x0 * scale / v**0.5), 1.0 when that is 0.
InitialDelta(xx0, sc, vv) ==
    IF norm(Div(Mul(xx0, sc), Sqrt(vv))) = Zero THEN Unit
    ELSE norm(Div(Mul(xx0, sc), Sqrt(vv)))

\* Before the call: nothing has been computed yet.
Init ==
    /\ fun = 1 /\ x0 = Zero /\ f0 = Zero /\ J0 = Zero
    /\ lb = Neg(Inf) /\ ub = Inf
    /\ ftol = Unit /\ xtol = Unit /\ gtol = Unit /\ max_nfev = 1
    /\ scaling = Zero
    /\ pc = "entry"
    /\ x = Zero /\ f = Zero /\ J = Zero /\ J_is_J0 = TRUE /\ g = Zero
    /\ scale = Unit
    /\ v = Unit /\ jv = 0 /\ Delta = Unit /\ alpha = Zero /\ cost = Zero
    /\ g_norm = Unbound /\ termination_status = None /\ iteration = 0
    /\ nfev = 0 /\ njev = 0
    /\ d = Unit /\ diag_h = Zero /\ g_h = Zero /\ theta = Unit
    /\ actual_reduction = Zero
    /\ x_new = Zero /\ f_new = Zero /\ cost_new = Zero /\ ratio = Zero
    /\ step_h = Zero
    /\ status = None /\ active_mask = 0
    /\ in_p_h = Zero /\ ret_p_h = Zero /\ ret_r_h = Zero
    /\ ret_p_stride = Zero /\ ret_reflected = FALSE

\* Line 308: the strictly feasible start.
InitialPoint(xx0, l, u) == make_strictly_feasible(xx0, l, u, RStepInit)

\* The call trf(fun, jac, x0, f0, J0, lb, ub, ftol, xtol, gtol, max_nfev,
\* scaling, ...) and lines 308-354: the strictly feasible start, the first
\* gradient, scale, Coleman-Li vector and trust-region radius.  f0 and J0 are
\* the caller's evaluation of fun and jac at the strictly feasible start, and
\* J is bound to the array J0.
StartWith(k, l, u, xx0, ft, xt, gt, mx, sg) ==
    \E xs \in {InitialPoint(xx0, l, u)} :
    \E ff0 \in {Fun(k, xs)} :
    \E JJ0 \in {Jac(k, xs)} :
    \E gs \in {Mul(JJ0, ff0)} :
    \E sc0 \in {IF sg = Zero
                THEN (IF JacScale(JJ0) = Zero THEN Unit ELSE JacScale(JJ0))
                ELSE sg} :
    \E sv \in {scaling_vector(xs, gs, l, u)} :
    \E vs \in {IF sv.jv # 0 THEN Mul(sv.v, sc0) ELSE sv.v} :
       /\ fun' = k /\ lb' = l /\ ub' = u /\ x0' = xx0
       /\ f0' = ff0 /\ J0' = JJ0
       /\ ftol' = ft /\ xtol' = xt /\ gtol' = gt
       /\ max_nfev' = mx /\ scaling' = sg
       /\ x' = xs
       /\ f' = ff0
       /\ J' = JJ0
       /\ J_is_J0' = TRUE
       /\ g' = gs
       /\ scale' = sc0
       /\ v' = vs
       /\ jv' = sv.jv
       /\ Delta' = InitialDelta(xx0, sc0, vs)
       /\ cost' = Mul(Half, Mul(ff0, ff0))

\* The calls: the residuals 1..NumFun with every box, start in the box,
\* tolerances and scaling; and the residual f(x) = x started at the smallest
\* positive double, without bounds, with a gtol the first gradient does not
\* meet.  A rejected trial sets Delta to 0.25 * norm(step_h) (line 504): from
\* the starts of the first kind that product reaches 0.0 only after hundreds
\* of rejected trials in a row, from the smallest positive double it does so
\* in the first trial, and line 505 then divides by the zero.
Start ==
    /\ pc = "entry"
    /\ \/ \E k \in 1..NumFun, b \in Boxes, t \in Tolerances,
             mx \in 1..MaxNfev, sg \in Scalings :
             \E xx0 \in {p \in StartPoints : Le(b[1], p) /\ Le(p, b[2])} :
                StartWith(k, b[1], b[2], xx0, t[1], t[2], t[3], mx, sg)
       \/ \E mx \in 1..MaxNfev :
             StartWith(0, Neg(Inf), Inf, Tiny, Tight, Tight, Tiny, mx, Zero)
    /\ nfev' = 1
    /\ njev' = 1
    /\ alpha' = Zero
    /\ termination_status' = None
    /\ iteration' = 0
    /\ pc' = "loop"
    /\ UNCHANGED <<g_norm, hat, actual_reduction, trial, result, call>>

\* The values the head of an outer iteration computes (lines 360-373).
HeadScale == IF scaling = Zero THEN maximum(scale, JacScale(J)) ELSE scale

HeadG == Mul(J, f)

HeadSV == scaling_vector(x, HeadG, lb, ub)

HeadGNorm == Abs(Mul(HeadG, HeadSV.v))

HeadStatus == IF Lt(HeadGNorm, gtol) THEN 1 ELSE termination_status

\* Lines 359-387: the loop is entered and the iteration returns, by gtol or
\* by the status a trial has set.
HeadReturn ==
    /\ pc = "loop"
    /\ nfev < max_nfev
    /\ HeadStatus # None
    /\ scale' = HeadScale
    /\ g' = HeadG
    /\ v' = HeadSV.v
    /\ jv' = HeadSV.jv
    /\ g_norm' = HeadGNorm
    /\ termination_status' = HeadStatus
    /\ active_mask' = find_active_constraints(x, lb, ub, xtol)
    /\ status' = HeadStatus
    /\ pc' = "done"
    /\ UNCHANGED <<args, call, iterate, jacobian, Delta, alpha, iteration, nfev,
                   njev, hat, actual_reduction, trial>>

\* C without the derivative Jv: diag(g / scale).
DiagHWithoutJv(gg, jj, sc) == Div(gg, sc)

\* C = diag(g / scale) Jv (line 404).
DiagH(gg, jj, sc) == Div(Mul(gg, Float(jj)), sc)

\* Lines 359-448: the loop is entered and the iteration goes on: the "hat"
\* variables, J scaled in place (and with it the caller's J0 while J is that
\* array), theta.  A negative diag_h has no square root, and scipy.linalg.svd
\* raises for an augmented matrix with an entry that is not finite.
HeadTransform ==
    /\ pc = "loop"
    /\ nfev < max_nfev
    /\ HeadStatus = None
    /\ \E hs \in {HeadScale} :
       \E hg \in {HeadG} :
       \E sv \in {HeadSV} :
       \E vh \in {IF sv.jv # 0 THEN Mul(sv.v, hs) ELSE sv.v} :
       \E dh \in {Div(Sqrt(vh), hs)} :
       \E ch \in {DiagH(hg, sv.jv, hs)} :
       \E gn \in {HeadGNorm} :
          /\ scale' = hs
          /\ g' = hg
          /\ v' = vh
          /\ jv' = sv.jv
          /\ g_norm' = gn
          /\ d' = dh
          /\ diag_h' = ch
          /\ g_h' = Mul(dh, hg)
          /\ J' = Mul(J, dh)
          /\ J0' = IF J_is_J0 THEN Mul(J, dh) ELSE J0
          /\ theta' = Max(ThetaMin, Sub(Unit, gn))
          /\ pc' = IF isfinite(Mul(J, dh)) /\ isfinite(Sqrt(ch))
                   THEN "inner" ELSE "raised"
    /\ actual_reduction' = Neg(Unit)
    /\ UNCHANGED <<args, call, iterate, J_is_J0, Delta, alpha,
                   termination_status, iteration, nfev, njev, trial, result>>

\* Line 359 fails and lines 539-542 return status 0; g_norm is unbound when
\* the loop body never ran.
CapReturn ==
    /\ pc = "loop"
    /\ ~(nfev < max_nfev)
    /\ IF g_norm = Unbound
       THEN /\ pc' = "raised"
            /\ UNCHANGED result
       ELSE /\ pc' = "done"
            /\ status' = 0
            /\ active_mask' = find_active_constraints(x, lb, ub, xtol)
    /\ UNCHANGED <<args, call, iterate, jacobian, g, scale, v, jv, Delta, alpha,
                   g_norm, termination_status, iteration, nfev, njev, hat,
                   actual_reduction, trial>>

\* The inner loop without the cap on the evaluations.
InnerLoopCondNoCap(ar, nf, mx) == Le(ar, Zero)

\* Line 453: the condition of the inner loop.
InnerLoopCond(ar, nf, mx) == Le(ar, Zero) /\ nf < mx

\* The trial point as x + step alone.
TrialPointNoShift(xx, step, l, u) == Add(xx, step)

\* Line 486: the trial point, pushed off the bounds.
TrialPoint(xx, step, l, u) == make_strictly_feasible(Add(xx, step), l, u, Zero)

\* The radius update shrinking below a ratio of 0.75 instead of 0.25.
RadiusUpdateWrongThreshold(rt, step_h_norm, Del, al) ==
    IF Lt(rt, ThreeQuarters)
    THEN [Delta |-> Mul(Quarter, step_h_norm),
          alpha |-> Mul(al, Div(Del, Mul(Quarter, step_h_norm)))]
    ELSE IF Gt(rt, ThreeQuarters) /\ Gt(step_h_norm, Mul(NearRadius, Del))
    THEN [Delta |-> Mul(Del, Two), alpha |-> Mul(al, Half)]
    ELSE [Delta |-> Del, alpha |-> al]

\* Lines 503-509: the new radius and Levenberg-Marquardt parameter.
RadiusUpdate(rt, step_h_norm, Del, al) ==
    IF Lt(rt, Quarter)
    THEN [Delta |-> Mul(Quarter, step_h_norm),
          alpha |-> Mul(al, Div(Del, Mul(Quarter, step_h_norm)))]
    ELSE IF Gt(rt, ThreeQuarters) /\ Gt(step_h_norm, Mul(NearRadius, Del))
    THEN [Delta |-> Mul(Del, Two), alpha |-> Mul(al, Half)]
    ELSE [Delta |-> Del, alpha |-> al]

\* Lines 464-476: the candidates for the step p = d * p_h and its stride
\* to_bound to the bounds.
Candidates_For(p_h, p, to_bound, ab) ==
    IF Ge(to_bound, Unit)
    THEN <<Mul(p_h, Min(Mul(theta, to_bound), Unit))>>
    ELSE find_reflected_step(x, J, diag_h, g_h, p, p_h, d, Delta, lb, ub, theta).steps_h
           \o <<find_gradient_step(x, ab.a, ab.b, g_h, d, Delta, lb, ub, theta)>>

Candidates_P(p_h, p) ==
    Candidates_For(p_h, p, step_size_to_bound(x, p, lb, ub).step,
                   build_1d_quadratic_function(J, diag_h, g_h, Neg(g_h),
                                               NoInitialPoint))

\* Lines 460-476: the candidate steps in "hat" space for the trust-region
\* step p_h: p_h itself when x + d * p_h is within the bounds, else p_h cut at
\* the bound, the reflected step and the gradient step.
Candidates(p_h) == Candidates_P(p_h, Mul(d, p_h))

ChosenStep_At(steps_h, qp_values, min_index) ==
    [step_h |-> steps_h[min_index],
     predicted_reduction |-> Neg(qp_values[min_index])]

ChosenStep_Values(steps_h, qp_values) ==
    ChosenStep_At(steps_h, qp_values, ArgMin(qp_values))

\* Lines 478-483: the candidate with the smallest value of the quadratic
\* model.
ChosenStep(steps_h) ==
    ChosenStep_Values(
        steps_h,
        IF Len(steps_h) = 3
        THEN <<evaluate_quadratic_function(J, diag_h, g_h, steps_h[1]),
               evaluate_quadratic_function(J, diag_h, g_h, steps_h[2]),
               evaluate_quadratic_function(J, diag_h, g_h, steps_h[3])>>
        ELSE <<evaluate_quadratic_function(J, diag_h, g_h, steps_h[1])>>)

TrialStatus_Of(ftol_satisfied, xtol_satisfied) ==
    IF ftol_satisfied /\ xtol_satisfied THEN 4
    ELSE IF ftol_satisfied THEN 2
    ELSE IF xtol_satisfied THEN 3
    ELSE termination_status

\* Lines 511-522: the status the ftol and xtol tests leave.
TrialStatus(ar, rt, step_norm) ==
    TrialStatus_Of(Lt(Abs(ar), Mul(ftol, cost)) /\ Gt(rt, Quarter),
                   Lt(step_norm, Mul(xtol, Add(xtol, norm(x)))))

\* Lines 453-525: one pass of the inner loop: a trial step, one evaluation of
\* fun, the radius update and the ftol and xtol tests.  Each value the code
\* assigns once is bound once, in the order of the code.
Trial ==
    /\ pc = "inner"
    /\ InnerLoopCond(actual_reduction, nfev, max_nfev)
    /\ \E sol \in {solve_lsq_trust_region(J, diag_h, f, Delta, alpha)} :
       \E ch \in {ChosenStep(Candidates(sol.p))} :
       \E step \in {Mul(d, ch.step_h)} :
       \E xn \in {TrialPoint(x, step, lb, ub)} :
       \E fn \in {Fun(fun, xn)} :
       \E cn \in {Mul(Half, Mul(fn, fn))} :
       \E correction \in {Mul(Half, Mul(Mul(ch.step_h, diag_h), ch.step_h))} :
       \E rt \in {IF Sign(ch.predicted_reduction) > 0
                   THEN Div(Sub(Sub(cost, cn), correction),
                            ch.predicted_reduction)
                   ELSE Zero} :
       \E ru \in {RadiusUpdate(rt, norm(ch.step_h), Delta, sol.alpha)} :
       \E ts \in {TrialStatus(Sub(cost, cn), rt, norm(step))} :
          /\ step_h' = ch.step_h
          /\ x_new' = xn
          /\ f_new' = fn
          /\ cost_new' = cn
          /\ actual_reduction' = Sub(cost, cn)
          /\ ratio' = rt
          /\ Delta' = ru.Delta
          /\ alpha' = ru.alpha
          /\ termination_status' = ts
          /\ pc' = IF ts # None THEN "after" ELSE "inner"
    /\ nfev' = nfev + 1
    /\ UNCHANGED <<args, call, iterate, jacobian, g, scale, v, jv, g_norm,
                   iteration, njev, hat, result>>

\* Line 453 fails: the inner loop ends.
InnerExit ==
    /\ pc = "inner"
    /\ ~InnerLoopCond(actual_reduction, nfev, max_nfev)
    /\ pc' = "after"
    /\ UNCHANGED <<args, call, iterate, jacobian, g, scale, v, jv, Delta, alpha,
                   g_norm, termination_status, iteration, nfev, njev, hat,
                   actual_reduction, trial, result>>

\* Acceptance with the sign of the reduction taken the wrong way round.
AcceptedWrongSign(ar) == Sign(ar) < 0

\* Line 527: the trial point is taken.
Accepted(ar) == Sign(ar) > 0

\* Lines 527-537: the end of an outer iteration; J = jac(x, f) binds J to a
\* new array.
Commit ==
    /\ pc = "after"
    /\ IF Accepted(actual_reduction)
       THEN /\ x' = x_new
            /\ f' = f_new
            /\ cost' = cost_new
            /\ J' = Jac(fun, x_new)
            /\ J_is_J0' = FALSE
            /\ njev' = njev + 1
       ELSE /\ J' = IF nfev = max_nfev THEN Jac(fun, x) ELSE J
            /\ J_is_J0' = (J_is_J0 /\ nfev # max_nfev)
            /\ UNCHANGED <<iterate, njev>>
    /\ iteration' = iteration + 1
    /\ pc' = "loop"
    /\ UNCHANGED <<args, call, J0, g, scale, v, jv, Delta, alpha, g_norm,
                   termination_status, nfev, hat, actual_reduction, trial,
                   result>>

Next ==
    \/ Start
    \/ HeadReturn
    \/ HeadTransform
    \/ CapReturn
    \/ Trial
    \/ InnerExit
    \/ Commit

Spec == Init /\ [][Next]_vars

Returned == pc = "done"

Terminated == pc \in {"done", "raised"}

(***************************************************************************)
(* find_reflected_step taken alone                                         *)
(***************************************************************************)
\* Boxes with a finite bound, and a narrow one.
ReflectBoxes ==
    {b \in Boxes : ~IsInf(b[1]) \/ ~IsInf(b[2])} \cup {<<Unit, Ratio(104, 100)>>}

\* Strictly interior points of the box (l, u): the start points inside it,
\* the middle of the narrow box and the neighbours of the finite bounds,
\* where make_strictly_feasible with rstep = 0 puts a trial point.
ReflectPoints(l, u) ==
    {q \in StartPoints \cup {nextafter(l, u), nextafter(u, l), Ratio(102, 100)} :
        Lt(l, q) /\ Lt(q, u)}

\* Trust-region steps p_h in "hat" space: of the size of the boxes and far
\* longer than the narrow box is wide.
ReflectSteps == {Float(0 - 20), Float(0 - 2), Float(0 - 1), Neg(Half),
                 Half, Float(1), Float(2), Float(20)}

\* Values of d = v**0.5 / scale.
ReflectScales == {Half, Unit, Two}

\* Values of theta = max(0.995, 1 - g_norm).
ReflectThetas == {ThetaMin, Ratio(999, 1000)}

\* Line 463 fails: x + p is not within the bounds.
LeavesBox(xx, p, l, u) == ~Ge(step_size_to_bound(xx, p, l, u).step, Unit)

\* The arguments of a call of find_reflected_step by line 468: x strictly
\* inside the box, p = d * p_h leaving it, p_h within the trust region, p_h
\* a descent direction of the model.
ReflectInit ==
    /\ fun = 1 /\ x0 = Zero /\ f0 = Zero /\ J0 = Zero
    /\ ftol = Unit /\ xtol = Unit /\ gtol = Unit /\ max_nfev = 1
    /\ scaling = Zero
    /\ pc = "call"
    /\ \E b \in ReflectBoxes : lb = b[1] /\ ub = b[2]
    /\ x \in ReflectPoints(lb, ub)
    /\ d \in ReflectScales
    /\ in_p_h \in ReflectSteps
    /\ LeavesBox(x, Mul(d, in_p_h), lb, ub)
    /\ Delta \in {Abs(in_p_h), Mul(Two, Abs(in_p_h))}
    /\ theta \in ReflectThetas
    /\ J = Unit /\ J_is_J0 = FALSE
    /\ diag_h \in {Zero, Unit}
    /\ g_h = (IF Sign(in_p_h) > 0 THEN Neg(Unit) ELSE Unit)
    /\ f = Zero /\ g = Zero /\ scale = Unit
    /\ v = Unit /\ jv = 0 /\ alpha = Zero /\ cost = Zero
    /\ g_norm = Unbound /\ termination_status = None /\ iteration = 0
    /\ nfev = 0 /\ njev = 0
    /\ actual_reduction = Zero
    /\ x_new = Zero /\ f_new = Zero /\ cost_new = Zero /\ ratio = Zero
    /\ step_h = Zero
    /\ status = None /\ active_mask = 0
    /\ ret_p_h = Zero /\ ret_r_h = Zero /\ ret_p_stride = Zero
    /\ ret_reflected = FALSE

\* Lines 235-285: the call returns p_h and r_h; p_stride and whether a
\* reflected stride was admitted (line 271) are kept beside them.
Reflect ==
    /\ pc = "call"
    /\ \E rs \in {find_reflected_step(x, J, diag_h, g_h, Mul(d, in_p_h),
                                       in_p_h, d, Delta, lb, ub, theta)} :
          /\ ret_p_h' = rs.steps_h[1]
          /\ ret_r_h' = rs.steps_h[2]
          /\ ret_p_stride' = rs.p_stride
          /\ ret_reflected' = rs.reflected
    /\ pc' = "returned"
    /\ UNCHANGED <<args, iterate, jacobian, g, scale, v, jv, Delta, alpha,
                   g_norm, termination_status, iteration, nfev, njev, hat,
                   actual_reduction, trial, result, in_p_h>>

ReflectNext == Reflect

ReflectSpec == ReflectInit /\ [][ReflectNext]_vars

(***************************************************************************)
(* Values the properties speak about                                       *)
(***************************************************************************)
\* The cost of the starting point, 0.5 * f0 * f0.
InitialCost == Mul(Half, Mul(f0, f0))

\* g_norm of a point xx with residual ff and Jacobian JJ (lines 367-373).
GNormAt(xx, ff, JJ) ==
    Abs(Mul(Mul(JJ, ff), scaling_vector(xx, Mul(JJ, ff), lb, ub).v))

\* g_norm of the starting point; J0 is no longer the Jacobian there once
\* line 418 has scaled it.
InitialGNorm == GNormAt(InitialPoint(x0, lb, ub), f0,
                        Jac(fun, InitialPoint(x0, lb, ub)))

(***************************************************************************)
(* C1  Strict feasibility: once x0 has been projected, the iterate x is    *)
(* strictly inside the box, l < x < u, in every state: at the head of      *)
(* every outer iteration, after every committed step, in the returned      *)
(* record.                                                                 *)
(***************************************************************************)
C1_StrictFeasibility == pc # "entry" => (Lt(lb, x) /\ Lt(x, ub))

\* A committed step whose x + step lay on or beyond a bound and was pushed
\* back inside.
C1_Witness ==
    /\ pc = "loop"
    /\ iteration >= 1
    /\ x = x_new
    /\ Sign(actual_reduction) > 0
    /\ \/ ~IsInf(ub) /\ x = nextafter(ub, lb)
       \/ ~IsInf(lb) /\ x = nextafter(lb, ub)

(***************************************************************************)
(* C2  Monotone cost: the committed cost never increases; a trial point is *)
(* committed (njev grows) only with a strictly smaller cost; the returned  *)
(* cost is at most the initial cost.                                       *)
(***************************************************************************)
C2_MonotoneCost ==
    /\ [][pc # "entry" => Le(cost', cost)]_vars
    /\ [][(pc = "after" /\ njev' # njev) => Lt(cost', cost)]_vars
    /\ [](Returned => Le(cost, InitialCost))

\* A trial point has been committed and the cost went down.
C2_Witness ==
    pc = "loop" /\ njev >= 2 /\ cost = cost_new /\ Lt(cost, InitialCost)

(***************************************************************************)
(* C3  Status 0 is returned only when no tolerance was met: if the last    *)
(* trial set termination_status to 2, 3 or 4, the returned status is not 0.*)
(***************************************************************************)
C3_StatusZeroOnlyWithoutTolerance ==
    (Returned /\ termination_status \in {2, 3, 4}) => status # 0

(***************************************************************************)
(* C4  gtol before the cap: a call started at a point with g_norm < gtol   *)
(* returns status 1 with nfev = 1 and njev = 1, for every max_nfev >= 1,   *)
(* and a call that returns an iterate with g_norm < gtol returns status 1. *)
(***************************************************************************)
C4_GtolBeforeCap ==
    /\ (Terminated /\ Lt(InitialGNorm, gtol))
         => (Returned /\ status = 1 /\ nfev = 1 /\ njev = 1)
    /\ (Returned /\ Lt(GNormAt(x, f, Jac(fun, x)), gtol)) => status = 1

\* A measure of the work left: the evaluations left, then the place in the
\* loops.  It is 0 only once trf has returned or raised.
Variant ==
    IF pc = "entry" THEN 4 * (MaxNfev + 1)
    ELSE IF Terminated THEN 0
    ELSE 4 * (max_nfev - nfev)
           + (CASE pc = "loop" -> 2
                [] pc = "inner" ->
                     (IF InnerLoopCond(actual_reduction, nfev, max_nfev)
                      THEN 1 ELSE 4)
                [] OTHER -> 3)

(***************************************************************************)
(* C5  Evaluation cap and termination: fun is called only while            *)
(* nfev < max_nfev, nfev never exceeds max_nfev, every finished outer      *)
(* iteration has evaluated fun at least once (iteration < nfev), and the   *)
(* call terminates: every step lowers a measure that is never negative and *)
(* allows at most max_nfev - 1 evaluations in the loop.                    *)
(***************************************************************************)
C5_CapAndTermination ==
    /\ [][(pc # "entry" /\ nfev' # nfev)
            => (nfev < max_nfev /\ nfev' = nfev + 1)]_vars
    /\ [](pc # "entry" => (nfev <= max_nfev /\ iteration + 1 <= nfev))
    /\ [][Variant' < Variant]_vars
    /\ [](Variant >= 0 /\ (Variant = 0 <=> Terminated))

\* A call that used all its evaluations: max_nfev - 1 calls to fun in the loop.
C5_Witness == Returned /\ max_nfev >= 3 /\ nfev = max_nfev /\ status = 0

(***************************************************************************)
(* C6  Output consistency: in the returned record fun = f(x),              *)
(* cost = 0.5 * fun^2, jac is the Jacobian at x in the original variables  *)
(* and optimality is g_norm computed from that x, fun and jac.             *)
(***************************************************************************)
C6_OutputConsistency ==
    Returned =>
        /\ f = Fun(fun, x)
        /\ cost = Mul(Half, Mul(f, f))
        /\ J = Jac(fun, x)
        /\ g_norm = GNormAt(x, f, Jac(fun, x))

(***************************************************************************)
(* C7  Frame of a rejected trial: an outer iteration whose trials all end  *)
(* with actual_reduction <= 0 leaves x, f, cost as they were and J the     *)
(* Jacobian at x in the original variables.                                *)
(***************************************************************************)
C7_RejectedFrame ==
    [][(pc = "after" /\ Sign(actual_reduction) <= 0)
         => (x' = x /\ f' = f /\ cost' = cost /\ J' = Jac(fun, x))]_vars

(***************************************************************************)
(* C8  Delta > 0 in every state: after the initialisation (1 when the norm *)
(* is 0) and after every radius update of the inner loop.                  *)
(***************************************************************************)
C8_DeltaPositive == pc # "entry" => Sign(Delta) > 0

(***************************************************************************)
(* C9  Radius update law: a trial changes Delta only when ratio < 0.25     *)
(* (to 0.25 * |step_h|) or when ratio > 0.75 and |step_h| > 0.95 * Delta   *)
(* (to 2 * Delta); a trial with 0.25 <= ratio <= 0.75 and                  *)
(* |step_h| <= 0.95 * Delta leaves Delta unchanged, and so does every step *)
(* that is not a trial.                                                    *)
(***************************************************************************)
C9_RadiusLaw ==
    /\ [][(pc = "inner" /\ nfev' = nfev + 1) =>
            /\ (Ge(ratio', Quarter) /\ Le(ratio', ThreeQuarters)
                  /\ Le(Abs(step_h'), Mul(NearRadius, Delta))) => Delta' = Delta
            /\ Delta' # Delta =>
                 \/ Lt(ratio', Quarter) /\ Delta' = Mul(Quarter, Abs(step_h'))
                 \/ /\ Gt(ratio', ThreeQuarters)
                    /\ Gt(Abs(step_h'), Mul(NearRadius, Delta))
                    /\ Delta' = Mul(Two, Delta)
            /\ Lt(ratio', Quarter) => Delta' = Mul(Quarter, Abs(step_h'))
            /\ (Gt(ratio', ThreeQuarters)
                  /\ Gt(Abs(step_h'), Mul(NearRadius, Delta)))
                 => Delta' = Mul(Two, Delta)]_vars
    /\ [][(pc # "entry" /\ nfev' = nfev) => Delta' = Delta]_vars

\* A trial with a ratio in [0.25, 0.75] and a step well inside the region.
C9_Witness ==
    /\ pc \in {"inner", "after"}
    /\ nfev >= 2
    /\ Ge(ratio, Quarter)
    /\ Le(ratio, ThreeQuarters)
    /\ Le(Abs(step_h), Mul(NearRadius, Delta))

(***************************************************************************)
(* C10  Sign of the Coleman-Li terms: v >= 0 and                           *)
(* diag_h = g * jv / scale >= 0 in every outer iteration, and diag_h = 0   *)
(* when both bounds are infinite.                                          *)
(***************************************************************************)
C10_ColemanLiSigns ==
    pc # "entry" =>
        /\ Sign(v) >= 0
        /\ Sign(diag_h) >= 0
        /\ pc \in {"inner", "after"} =>
             diag_h = Div(IF jv > 0 THEN g ELSE IF jv < 0 THEN Neg(g) ELSE Zero,
                          scale)
        /\ (IsInf(lb) /\ IsInf(ub)) => diag_h = Zero

\* An outer iteration whose anti-gradient points at a finite upper bound.
C10_Witness ==
    /\ pc = "inner"
    /\ jv = 0 - 1
    /\ Sign(g) < 0
    /\ Sign(diag_h) > 0
    /\ v = Mul(Sub(ub, x), scale)

(***************************************************************************)
(* C11  Reflection correctness: when find_reflected_step is called with x  *)
(* strictly inside the box and a step p = d * p_h that leaves it, the      *)
(* returned p_h is theta * p_stride times the p_h given and                *)
(* l < x + d * p_h < u; when no reflected stride is admitted the second    *)
(* value returned is that same p_h.                                        *)
(***************************************************************************)
C11_ReflectionCorrectness ==
    pc = "returned" =>
        /\ ret_p_h = Mul(Mul(in_p_h, ret_p_stride), theta)
        /\ Lt(lb, Add(x, Mul(d, ret_p_h)))
        /\ Lt(Add(x, Mul(d, ret_p_h)), ub)
        /\ ~ret_reflected => ret_r_h = ret_p_h

====
